---- MODULE Spec2Model ----
(***************************************************************************)
(* Model of the grocery product API (server.js): a JSON file holding the   *)
(* product array, a logging middleware, and the five route handlers.       *)
(* Every await of a handler is a point where another request may run, so   *)
(* a request is a small process: middleware, load (readProducts), write    *)
(* (writeProducts) and response.                                           *)
(***************************************************************************)
EXTENDS Integers, Sequences, FiniteSets, TLC

\* ---------------------------------------------------------------- bounds
\* Longest persisted collection explored by the request processes.
MaxLen == 2
\* Largest id a create may assign.
MaxId == 3
\* Longest collection the list operation is applied to.
MaxListLen == 3
\* page and limit range over -MaxPage .. MaxPage.
MaxPage == 3

Procs == {1, 2}

\* ------------------------------------------------------------- JS values
\* A missing property / absent query parameter.
Undefined == "<undefined>"

\* A number-like input: a number (or numeric string), a non-numeric value
\* (null, "abc"), the empty string, or undefined.
Num(n) == [k |-> "num", n |-> n]
NaN == [k |-> "nan", n |-> 0]
Null == [k |-> "null", n |-> 0]
EmptyStr == [k |-> "empty", n |-> 0]
UndefNum == [k |-> "undef", n |-> 0]

\* parseFloat / parseInt(.., 10) on the inputs above (integer-valued numbers).
ParseFloat(v) == IF v.k = "num" THEN v ELSE NaN
ParseInt(v) == IF v.k = "num" THEN Num(v.n) ELSE NaN

\* JSON.stringify writes NaN as null; JSON.parse reads null back.
JsonNumber(v) == IF v.k = "nan" THEN Null ELSE v

\* ToNumber of a persisted number, as the relational operators apply it.
ToNumber(v) == IF v.k = "null" THEN Num(0) ELSE v

\* a >= b and a <= b on JS numbers: false as soon as one side is NaN.
Ge(a, b) == ToNumber(a).k = "num" /\ ToNumber(b).k = "num" /\ ToNumber(a).n >= ToNumber(b).n
Le(a, b) == ToNumber(a).k = "num" /\ ToNumber(b).k = "num" /\ ToNumber(a).n <= ToNumber(b).n

\* !s is false exactly for a non-empty string.
Truthy(s) == s \notin {Undefined, ""}

\* Boolean(v) on a JSON true/false, a non-empty string, or an empty string.
BooleanOf(v) == v \notin {"false", "", Undefined}

\* String.prototype.toLowerCase on the strings the model uses.
ToLowerCase(s) ==
  CASE s = "Fruits" -> "fruits"
    [] s = "FRUITS" -> "fruits"
    [] s = "Dairy" -> "dairy"
    [] s = "FarmFresh" -> "farmfresh"
    [] s = "Amul" -> "amul"
    [] s = "AMUL" -> "amul"
    [] s = "TRUE" -> "true"
    [] s = "True" -> "true"
    [] OTHER -> s

\* ------------------------------------------------------------- products
Product(id, name, category, price, inStock, quantity, brand) ==
  [id |-> id, name |-> name, category |-> category, price |-> price,
   inStock |-> inStock, quantity |-> quantity, brand |-> brand]

Body(name, category, price, inStock, quantity, brand) ==
  [name |-> name, category |-> category, price |-> price,
   inStock |-> inStock, quantity |-> quantity, brand |-> brand]

\* Placeholders for "no body" and "no record".
NoBody == Body(Undefined, Undefined, UndefNum, Undefined, UndefNum, Undefined)
NoProduct == Product(0, Undefined, Undefined, Null, FALSE, Null, Undefined)

Apple == Body("Apple", "Fruits", Num(25), "true", Num(100), "FarmFresh")
\* zero, false and a non-numeric quantity pass the presence checks
Milk == Body("Milk", "Dairy", Num(0), "false", NaN, "Amul")

\* Request bodies: the two valid ones, and Apple with one field missing or empty.
Bodies ==
  {Apple, Milk}
    \cup {[Apple EXCEPT !.name = v] : v \in {Undefined, ""}}
    \cup {[Apple EXCEPT !.category = v] : v \in {Undefined, ""}}
    \cup {[Apple EXCEPT !.brand = v] : v \in {Undefined, ""}}
    \cup {[Apple EXCEPT !.price = UndefNum],
          [Apple EXCEPT !.inStock = Undefined],
          [Apple EXCEPT !.quantity = UndefNum]}

\* The bodies sent with PUT.
PutBodies ==
  {Apple, Milk, [Apple EXCEPT !.name = ""], [Apple EXCEPT !.quantity = UndefNum]}

\* The required-field check of POST and PUT (true when the request is rejected).
MissingFieldMutant(b) ==
  \/ ~Truthy(b.name) \/ ~Truthy(b.category) \/ ~Truthy(b.brand)
  \/ b.price \in {UndefNum, Num(0)} \/ b.inStock = Undefined \/ b.quantity = UndefNum
MissingField(b) ==
  \/ ~Truthy(b.name)
  \/ ~Truthy(b.category)
  \/ b.price = UndefNum
  \/ b.inStock = Undefined
  \/ b.quantity = UndefNum
  \/ ~Truthy(b.brand)

\* The object literal of POST and PUT, as JSON carries it to the file and
\* to the client.
Coerced(id, b) ==
  Product(id, b.name, b.category, JsonNumber(ParseFloat(b.price)),
          BooleanOf(b.inStock), JsonNumber(ParseInt(b.quantity)), b.brand)

Ids(products) == {products[i].id : i \in 1..Len(products)}

SetMax(S) == CHOOSE m \in S : \A x \in S : x <= m

\* nextId of POST.
NextIdMutant(products) == Len(products) + 1
NextId(products) ==
  IF Len(products) # 0 THEN SetMax(Ids(products)) + 1 ELSE 1

\* Array.prototype.findIndex(p => p.id === id), 1-based; 0 stands for -1.
FindIndex(products, id) ==
  IF \E i \in 1..Len(products) : id.k = "num" /\ products[i].id = id.n
    THEN CHOOSE i \in 1..Len(products) :
           /\ id.k = "num" /\ products[i].id = id.n
           /\ \A j \in 1..(i - 1) : products[j].id # id.n
    ELSE 0

\* products.filter(p => p.id !== id) of DELETE (SelectSeq is Array.prototype.filter).
WithoutIdMutant(products, id) ==
  LET Keep(p) == id.k = "num" /\ p.id = id.n IN SelectSeq(products, Keep)
WithoutId(products, id) ==
  LET Keep(p) == ~(id.k = "num" /\ p.id = id.n) IN SelectSeq(products, Keep)

\* products.push(newProduct) of POST.
Pushed(products, b) == Append(products, Coerced(NextId(products), b))

\* products[idx] = {...} of PUT.
ReplacedMutant(products, idx, id, b) ==
  [products EXCEPT ![idx] = [Coerced(id.n, b) EXCEPT !.name = products[idx].name]]
Replaced(products, idx, id, b) ==
  [products EXCEPT ![idx] = Coerced(id.n, b)]

\* ---------------------------------------------------------------- state
VARIABLES
  store,     \* grocery.json: the persisted product array
  pc,        \* per request process: idle, logging, reading, writing
  req,       \* per process: the request being handled
  snap,      \* per process: the array readProducts returned to the handler
  last,      \* the answer to the latest request (request, status, JSON body),
             \* forgotten when the next request arrives
  assigned,  \* history: ids returned by 201 answers
  acked,     \* history: records answered 201, not deleted or replaced since
  query,     \* the query string of the latest GET /products
  listed     \* the answer to it (status, error, array)

vars == <<store, pc, req, snap, last, assigned, acked, query, listed>>

Req(method, id, body) == [method |-> method, id |-> id, body |-> body]
NoReq == Req("NONE", NaN, NoBody)

Answer(r, status, rec) == [req |-> r, status |-> status, rec |-> rec]

\* req.params.id: a decimal string, or one parseInt cannot read.
PathIds == {Num(i) : i \in 1..MaxId} \cup {NaN}

Requests ==
  {Req("POST", NaN, b) : b \in Bodies}
    \cup {Req("PUT", i, b) : i \in PathIds, b \in PutBodies}
    \cup {Req("DELETE", i, NoBody) : i \in PathIds}
    \cup {Req("GET", i, NoBody) : i \in PathIds}

\* The requests that overlap in the concurrent specification.
ConcurrentRequests ==
  {Req("POST", NaN, b) : b \in {Apple, Milk}}
    \cup {Req("PUT", Num(1), Milk)}
    \cup {Req("DELETE", Num(1), NoBody)}

NoQuery ==
  [category |-> Undefined, brand |-> Undefined, inStock |-> Undefined,
   priceMin |-> UndefNum, priceMax |-> UndefNum, page |-> UndefNum, limit |-> UndefNum]
NoListed == [status |-> 0, error |-> "", body |-> <<>>]

\* ensureDataFile has written '[]'; no request has arrived.
Init ==
  /\ store = <<>>
  /\ pc = [p \in Procs |-> "idle"]
  /\ req = [p \in Procs |-> NoReq]
  /\ snap = [p \in Procs |-> <<>>]
  /\ last = Answer(NoReq, 0, NoProduct)
  /\ assigned = {}
  /\ acked = {}
  /\ query = NoQuery
  /\ listed = NoListed

\* The handler's answer ends the request.
Respond(p, status, rec) ==
  /\ last' = Answer(req[p], status, rec)
  /\ pc' = [pc EXCEPT ![p] = "idle"]
  /\ req' = [req EXCEPT ![p] = NoReq]
  /\ snap' = [snap EXCEPT ![p] = <<>>]

\* A request arrives and the logging middleware starts its appendFile.
Receive(p, r) ==
  /\ pc[p] = "idle"
  /\ (r.method = "POST" /\ ~MissingField(r.body))
       => (Len(store) < MaxLen /\ NextId(store) <= MaxId)
  /\ pc' = [pc EXCEPT ![p] = "logging"]
  /\ req' = [req EXCEPT ![p] = r]
  /\ last' = Answer(NoReq, 0, NoProduct)
  /\ UNCHANGED <<store, snap, assigned, acked, query, listed>>

\* appendFile succeeded, or it failed and the writeFile of the catch block
\* succeeded: next() runs the route handler up to its first await.  POST and
\* PUT check the body before they read the file.
LogWritten(p) ==
  /\ pc[p] = "logging"
  /\ IF req[p].method \in {"POST", "PUT"} /\ MissingField(req[p].body)
       THEN Respond(p, 400, NoProduct)
       ELSE /\ pc' = [pc EXCEPT ![p] = "reading"]
            /\ UNCHANGED <<req, snap, last>>
  /\ UNCHANGED <<store, assigned, acked, query, listed>>

\* appendFile and the writeFile of the catch block both failed: the async
\* middleware rejects before next().  Express 4 leaves the request without an
\* answer (status 0); Express 5 passes the rejection to its error handler (500).
LogFailed(p) ==
  /\ pc[p] = "logging"
  /\ \E status \in {0, 500} : Respond(p, status, NoProduct)
  /\ UNCHANGED <<store, assigned, acked, query, listed>>

\* data.products of GET /products/:id: the parsed file is an array, which has
\* no such property, so products is undefined and products.find throws.
HasProductsProperty(data) == FALSE

\* GET /products/:id after readProducts.
GetLoad(p) ==
  /\ pc[p] = "reading" /\ req[p].method = "GET"
  /\ LET id == ParseInt(req[p].id)
         idx == FindIndex(store, id)
     IN IF ~HasProductsProperty(store) THEN Respond(p, 500, NoProduct)
        ELSE IF idx = 0 THEN Respond(p, 404, NoProduct)
        ELSE Respond(p, 200, store[idx])
  /\ UNCHANGED <<store, assigned, acked, query, listed>>

\* POST /products: readProducts returns.
PostLoad(p) ==
  /\ pc[p] = "reading" /\ req[p].method = "POST"
  /\ Len(store) < MaxLen /\ NextId(store) <= MaxId
  /\ snap' = [snap EXCEPT ![p] = store]
  /\ pc' = [pc EXCEPT ![p] = "writing"]
  /\ UNCHANGED <<store, req, last, assigned, acked, query, listed>>

\* POST /products: push, writeProducts, 201.
PostWrite(p) ==
  /\ pc[p] = "writing" /\ req[p].method = "POST"
  /\ LET newProduct == Coerced(NextId(snap[p]), req[p].body)
     IN /\ store' = Pushed(snap[p], req[p].body)
        /\ Respond(p, 201, newProduct)
        /\ assigned' = assigned \cup {newProduct.id}
        /\ acked' = acked \cup {newProduct}
  /\ UNCHANGED <<query, listed>>

\* PUT /products/:id: readProducts returns, findIndex.
PutLoad(p) ==
  /\ pc[p] = "reading" /\ req[p].method = "PUT"
  /\ IF FindIndex(store, ParseInt(req[p].id)) = 0
       THEN Respond(p, 404, NoProduct)
       ELSE /\ snap' = [snap EXCEPT ![p] = store]
            /\ pc' = [pc EXCEPT ![p] = "writing"]
            /\ UNCHANGED <<req, last>>
  /\ UNCHANGED <<store, assigned, acked, query, listed>>

\* PUT /products/:id: replace, writeProducts, 200.
PutWrite(p) ==
  /\ pc[p] = "writing" /\ req[p].method = "PUT"
  /\ LET id == ParseInt(req[p].id)
         idx == FindIndex(snap[p], id)
     IN /\ store' = Replaced(snap[p], idx, id, req[p].body)
        /\ Respond(p, 200, store'[idx])
        /\ acked' = {a \in acked : a.id # id.n}
  /\ UNCHANGED <<assigned, query, listed>>

\* DELETE /products/:id: readProducts returns, filter, length test.
DeleteLoad(p) ==
  /\ pc[p] = "reading" /\ req[p].method = "DELETE"
  /\ IF Len(WithoutId(store, ParseInt(req[p].id))) = Len(store)
       THEN Respond(p, 404, NoProduct)
       ELSE /\ snap' = [snap EXCEPT ![p] = store]
            /\ pc' = [pc EXCEPT ![p] = "writing"]
            /\ UNCHANGED <<req, last>>
  /\ UNCHANGED <<store, assigned, acked, query, listed>>

\* DELETE /products/:id: writeProducts(filtered), 204.
DeleteWrite(p) ==
  /\ pc[p] = "writing" /\ req[p].method = "DELETE"
  /\ LET id == ParseInt(req[p].id)
     IN /\ store' = WithoutId(snap[p], id)
        /\ Respond(p, 204, NoProduct)
        /\ acked' = {a \in acked : a.id # id.n}
  /\ UNCHANGED <<assigned, query, listed>>

\* ------------------------------------------------------- GET /products
\* Arithmetic on JS numbers: NaN propagates.
Minus(a, b) == IF a.k = "num" /\ b.k = "num" THEN Num(a.n - b.n) ELSE NaN
Plus(a, b) == IF a.k = "num" /\ b.k = "num" THEN Num(a.n + b.n) ELSE NaN
Times(a, b) == IF a.k = "num" /\ b.k = "num" THEN Num(a.n * b.n) ELSE NaN

Min(a, b) == IF a <= b THEN a ELSE b
Max(a, b) == IF a >= b THEN a ELSE b

\* ToIntegerOrInfinity of a slice argument (NaN is 0), then the clamping of
\* Array.prototype.slice: a negative offset counts from the end.
SliceOffset(v, len) ==
  LET rel == IF v.k = "num" THEN v.n ELSE 0
  IN IF rel < 0 THEN Max(len + rel, 0) ELSE Min(rel, len)

\* Array.prototype.slice(start, end).
Slice(products, start, end) ==
  SubSeq(products, SliceOffset(start, Len(products)) + 1,
                   SliceOffset(end, Len(products)))

\* The five filter stages of GET /products, each on the result of the one before.
ByCategory(products, q) ==
  LET Keep(p) == ToLowerCase(p.category) = ToLowerCase(q.category)
  IN IF Truthy(q.category) THEN SelectSeq(products, Keep) ELSE products

ByBrand(products, q) ==
  LET Keep(p) == ToLowerCase(p.brand) = ToLowerCase(q.brand)
  IN IF Truthy(q.brand) THEN SelectSeq(ByCategory(products, q), Keep)
     ELSE ByCategory(products, q)

ByStock(products, q) ==
  LET boolStock == ToLowerCase(q.inStock) = "true"
      Keep(p) == p.inStock = boolStock
  IN IF q.inStock # Undefined THEN SelectSeq(ByBrand(products, q), Keep)
     ELSE ByBrand(products, q)

ByPriceMinMutant(products, q) ==
  LET Keep(p) == Ge(p.price, ParseFloat(q.priceMin)) /\ ~Le(p.price, ParseFloat(q.priceMin))
  IN IF q.priceMin # UndefNum THEN SelectSeq(ByStock(products, q), Keep)
     ELSE ByStock(products, q)
ByPriceMin(products, q) ==
  LET Keep(p) == Ge(p.price, ParseFloat(q.priceMin))
  IN IF q.priceMin # UndefNum THEN SelectSeq(ByStock(products, q), Keep)
     ELSE ByStock(products, q)

ByPriceMax(products, q) ==
  LET Keep(p) == Le(p.price, ParseFloat(q.priceMax))
  IN IF q.priceMax # UndefNum THEN SelectSeq(ByPriceMin(products, q), Keep)
     ELSE ByPriceMin(products, q)

Paginated(products, q) ==
  LET pageNum == ParseInt(q.page)
      limitNum == ParseInt(q.limit)
      start == Times(Minus(pageNum, Num(1)), limitNum)
      end == Plus(start, limitNum)
  IN IF q.page # UndefNum /\ q.limit # UndefNum
       THEN Slice(ByPriceMax(products, q), start, end)
       ELSE ByPriceMax(products, q)

Listed(status, error, body) == [status |-> status, error |-> error, body |-> body]

\* The answer of GET /products: the first return statement reached.
ListAnswer(products, q) ==
  IF Truthy(q.category) /\ q.category = ""
    THEN Listed(400, "Category not available", <<>>)
  ELSE IF Truthy(q.brand) /\ q.brand = ""
    THEN Listed(400, "Brand not available", <<>>)
  ELSE IF q.priceMin # UndefNum /\ Len(ByPriceMin(products, q)) = 0
    THEN Listed(400, "Price is high", <<>>)
  ELSE IF q.priceMax # UndefNum /\ q.priceMax = EmptyStr
    THEN Listed(400, "Price is Min", <<>>)
  ELSE Listed(200, "", Paginated(products, q))

\* The products the list operation is applied to, as POST persists them.
Catalog ==
  {Body("Apple", "Fruits", Num(25), "true", Num(100), "FarmFresh"),
   Body("Banana", "Fruits", Num(5), "false", Num(0), "Amul"),
   Body("Milk", "Dairy", NaN, "true", Num(7), "Amul"),
   Body("Curd", "Dairy", Num(25), "false", NaN, "FarmFresh")}

\* The collections sequential creates of catalog products leave in the file.
ListCollections ==
  UNION {{[i \in 1..n |-> Coerced(i, b[i])] : b \in [1..n -> Catalog]} : n \in 0..MaxListLen}

QueryNumbers == {Num(i) : i \in -MaxPage..MaxPage} \cup {NaN, UndefNum}

\* Query strings: every combination of filters, unpaginated or on page 1,
\* and every page and limit on one category or none.
Queries ==
  {[category |-> c, brand |-> b, inStock |-> s, priceMin |-> lo, priceMax |-> hi,
    page |-> pl, limit |-> pl] :
      c \in {Undefined, "", "fruits", "DAIRY"},
      b \in {Undefined, "", "AMUL"},
      s \in {Undefined, "TRUE", "false"},
      lo \in {UndefNum, EmptyStr, NaN, Num(5), Num(30)},
      hi \in {UndefNum, EmptyStr, Num(3), Num(25)},
      pl \in {UndefNum, Num(1)}}
  \cup
  {[category |-> c, brand |-> Undefined, inStock |-> Undefined,
    priceMin |-> UndefNum, priceMax |-> UndefNum, page |-> pg, limit |-> lm] :
      c \in {Undefined, "FRUITS"}, pg \in QueryNumbers, lm \in QueryNumbers}

\* GET /products: readProducts, filters, pagination, answer (no await after
\* the read).
GetProducts(q) ==
  /\ query' = q
  /\ listed' = ListAnswer(store, q)
  /\ UNCHANGED <<store, pc, req, snap, last, assigned, acked>>

InitList ==
  /\ store \in ListCollections
  /\ pc = [p \in Procs |-> "idle"]
  /\ req = [p \in Procs |-> NoReq]
  /\ snap = [p \in Procs |-> <<>>]
  /\ last = Answer(NoReq, 0, NoProduct)
  /\ assigned = {}
  /\ acked = {}
  /\ query = NoQuery
  /\ listed = NoListed

NextList == listed = NoListed /\ \E q \in Queries : GetProducts(q)

\* The list operation applied once to each collection and query.
SpecList == InitList /\ [][NextList]_vars

\* No other request is in flight.
Alone(p) == \A q \in Procs \ {p} : pc[q] = "idle"

\* Requests handled one at a time.
Next ==
  \/ \E p \in Procs, r \in Requests : Alone(p) /\ Receive(p, r)
  \/ \E p \in Procs : Alone(p) /\ LogWritten(p)
  \/ \E p \in Procs : Alone(p) /\ LogFailed(p)
  \/ \E p \in Procs : Alone(p) /\ GetLoad(p)
  \/ \E p \in Procs : Alone(p) /\ PostLoad(p)
  \/ \E p \in Procs : Alone(p) /\ PostWrite(p)
  \/ \E p \in Procs : Alone(p) /\ PutLoad(p)
  \/ \E p \in Procs : Alone(p) /\ PutWrite(p)
  \/ \E p \in Procs : Alone(p) /\ DeleteLoad(p)
  \/ \E p \in Procs : Alone(p) /\ DeleteWrite(p)

Spec == Init /\ [][Next]_vars

\* Creates, updates and deletes overlapping at every await (the log is
\* writable).
NextConcurrent ==
  \/ \E p \in Procs, r \in ConcurrentRequests : Receive(p, r)
  \/ \E p \in Procs : LogWritten(p)
  \/ \E p \in Procs : PostLoad(p)
  \/ \E p \in Procs : PostWrite(p)
  \/ \E p \in Procs : PutLoad(p)
  \/ \E p \in Procs : PutWrite(p)
  \/ \E p \in Procs : DeleteLoad(p)
  \/ \E p \in Procs : DeleteWrite(p)

SpecConcurrent == Init /\ [][NextConcurrent]_vars

\* ---------------------------------------------------------------- claims
Range(f) == {f[i] : i \in DOMAIN f}

\* Process p is answered in this step.
Answered(p) == pc[p] # "idle" /\ pc'[p] = "idle"

\* C1: GET /products/:id answers 200 with the first record whose id is the
\* path id when the persisted collection holds one, 404 when it holds none,
\* and never 500.
C1_GetByIdAnswers ==
  [][\A p \in Procs :
       (Answered(p) /\ pc[p] = "reading" /\ req[p].method = "GET") =>
         LET idx == FindIndex(store, ParseInt(req[p].id))
         IN IF idx # 0
              THEN last'.status = 200 /\ last'.rec = store[idx]
              ELSE last'.status = 404]_vars

\* C2: no two records of the persisted collection have the same id.
C2_UniqueIds ==
  \A i, j \in 1..Len(store) : i # j => store[i].id # store[j].id

\* A create answered 201 on a collection that has lost its first record.
C2_CreateAfterDelete ==
  /\ Len(store) = 2
  /\ 1 \notin Ids(store)
  /\ last.status = 201

\* C3: the id a create assigns differs from every id an earlier create
\* assigned, deleted or not.
C3_IdNeverReused ==
  [][\A p \in Procs :
       (Answered(p) /\ last'.status = 201) => last'.rec.id \notin assigned]_vars

\* The filters of the list operation as one predicate on a product: a filter
\* applies when its value is supplied (category and brand: and not empty).
Matches(p, q, withMax) ==
  /\ Truthy(q.category) => ToLowerCase(p.category) = ToLowerCase(q.category)
  /\ Truthy(q.brand) => ToLowerCase(p.brand) = ToLowerCase(q.brand)
  /\ q.inStock # Undefined => (p.inStock <=> (ToLowerCase(q.inStock) = "true"))
  /\ q.priceMin # UndefNum => Ge(p.price, ParseFloat(q.priceMin))
  /\ (withMax /\ q.priceMax # UndefNum) => Le(p.price, ParseFloat(q.priceMax))

AboveMin(products, q) ==
  LET Keep(p) == Matches(p, q, FALSE) IN SelectSeq(products, Keep)
Filtered(products, q) ==
  LET Keep(p) == Matches(p, q, TRUE) IN SelectSeq(products, Keep)

ListAnswered == listed # NoListed
Unpaginated == query.page = UndefNum \/ query.limit = UndefNum
NoResultsAboveMin == listed.status = 400 /\ listed.error = "Price is high"

\* With priceMin, the answer is the 400 of priceMin exactly when nothing is
\* left after the category, brand, inStock and priceMin filters.
MinErrorExactly ==
  (ListAnswered /\ query.priceMin # UndefNum) =>
    (NoResultsAboveMin <=> Len(AboveMin(store, query)) = 0)

\* A numeric priceMax that leaves nothing is answered 200 with an empty array.
MaxLeavesNothing ==
  /\ ListAnswered
  /\ query.priceMax.k = "num"
  /\ Len(Filtered(store, query)) = 0
  /\ ~NoResultsAboveMin

MaxIsNoError ==
  MaxLeavesNothing => (listed.status = 200 /\ listed.body = <<>>)

C5_EmptyFilterRejected ==
  (ListAnswered /\ (query.category = "" \/ query.brand = "")) => listed.status = 400

\* The elements of f at the 0-based positions i with
\* (p-1)*l <= i < (p-1)*l + l, clamped to the bounds of f.
Window(f, p, l) == SubSeq(f, Max((p - 1) * l, 0) + 1, Min((p - 1) * l + l, Len(f)))

\* C6: with integers page and limit the answer is the window of the filtered
\* sequence; without page or limit it is the whole filtered sequence.
C6_PageWindow ==
  (ListAnswered /\ listed.status = 200) =>
    /\ (query.page.k = "num" /\ query.limit.k = "num")
         => listed.body = Window(Filtered(store, query), query.page.n, query.limit.n)
    /\ Unpaginated => listed.body = Filtered(store, query)

\* The bodies create and update reject, in the words of the claim.
Rejectable(b) ==
  \/ b.name \in {Undefined, ""}
  \/ b.category \in {Undefined, ""}
  \/ b.brand \in {Undefined, ""}
  \/ b.price = UndefNum
  \/ b.inStock = Undefined
  \/ b.quantity = UndefNum

\* C7: a create or update is answered 400 exactly when its body is
\* rejectable, whatever the path id; it goes on to read the file exactly when
\* it is not; and a rejected request leaves the persisted collection as it was.
C7_ValidationExactly ==
  [][/\ (last'.req.method \in {"POST", "PUT"} /\ last'.status \in {200, 201, 400, 404})
          => (last'.status = 400 <=> Rejectable(last'.req.body))
     /\ \A p \in Procs :
          (pc'[p] \in {"reading", "writing"} /\ req'[p].method \in {"POST", "PUT"})
            => ~Rejectable(req'[p].body)
     /\ \A p \in Procs :
          (Answered(p) /\ last'.status \in {400, 404}) => store' = store]_vars

\* An update with a rejectable body and an id no record has was answered 400.
C7_InvalidUpdateOfAbsentId ==
  /\ last.req.method = "PUT"
  /\ last.status = 400
  /\ store # <<>>
  /\ FindIndex(store, ParseInt(last.req.id)) = 0

\* store with its i-th record removed.
Without(products, i) == SubSeq(products, 1, i - 1) \o SubSeq(products, i + 1, Len(products))

\* C8: an update answered 200 keeps the length and every other record, and
\* the record at the position of the path id gets that id and the coerced
\* fields of the body; a delete answered 204 removes exactly the record with
\* the path id; a 404 to either leaves the collection as it was.
C8_OnlyTargetChanges ==
  [][\A p \in Procs :
       (Answered(p) /\ req[p].method \in {"PUT", "DELETE"}) =>
         LET id == req[p].id
             b == req[p].body
         IN /\ last'.status = 200 =>
                 /\ Len(store') = Len(store)
                 /\ \E i \in 1..Len(store) :
                      /\ store[i].id = id.n
                      /\ store'[i] = last'.rec
                      /\ store'[i].id = id.n
                      /\ store'[i].name = b.name
                      /\ store'[i].category = b.category
                      /\ store'[i].brand = b.brand
                      /\ store'[i].price = JsonNumber(ParseFloat(b.price))
                      /\ store'[i].inStock = BooleanOf(b.inStock)
                      /\ store'[i].quantity = JsonNumber(ParseInt(b.quantity))
                      /\ \A j \in 1..Len(store) : j # i => store'[j] = store[j]
            /\ last'.status = 204 =>
                 /\ Len(store') = Len(store) - 1
                 /\ \E i \in 1..Len(store) :
                      store[i].id = id.n /\ store' = Without(store, i)
            /\ last'.status = 404 =>
                 /\ store' = store
                 /\ \A i \in 1..Len(store) : ~(id.k = "num" /\ store[i].id = id.n)]_vars

\* The second of two records was updated from Apple to Milk.
C8_SecondRecordUpdated ==
  /\ last.req.method = "PUT"
  /\ last.status = 200
  /\ Len(store) = 2
  /\ store[2] = last.rec
  /\ store[2].name = "Milk"
  /\ store[1].name = "Apple"

\* C9: whatever happens to the log, the middleware calls next(): the request
\* leaves the middleware into its handler (a 400 of the body check, or the
\* read of the file).
C9_LogFailureNeverFailsRequest ==
  [][\A p \in Procs :
       (pc[p] = "logging" /\ pc'[p] # "logging") =>
         \/ pc'[p] = "reading"
         \/ (pc'[p] = "idle" /\ last'.status = 400)]_vars

\* Every record answered 201, and not deleted or replaced since, is persisted.
AckedPersisted == acked \subseteq Range(store)

\* C10: a write saves the collection its handler loaded before the await, so
\* AckedPersisted is kept by every step whose writer loaded the collection as
\* it still is, which is every step when requests run one at a time.
C10_SerialWritesKeepAcked ==
  [][(/\ AckedPersisted
      /\ \A p \in Procs : (Answered(p) /\ pc[p] = "writing") => snap[p] = store)
       => AckedPersisted']_vars

\* Two creates loaded the same collection, both were answered 201 with the
\* same id, and the file holds only one of the two records.
C10_LostUpdate ==
  /\ \A p \in Procs : pc[p] = "idle"
  /\ \E a, b \in acked :
       /\ a.id = b.id
       /\ a # b
       /\ a \in Range(store)
       /\ b \notin Range(store)

====
